---------------------------- MODULE Spec2Model ----------------------------
(***************************************************************************)
(* A model of log.CodecometWriter (src/log/codecomet_writer.go): the       *)
(* renderer that turns one JSON-encoded log record per Write call into one *)
(* line of text, using a pooled scratch buffer and a single flush to the   *)
(* sink.                                                                   *)
(*                                                                         *)
(* Text is modelled at byte level: a Go string or []byte is a sequence of  *)
(* bytes, each byte a one-character string, except the escape byte 0x1b,   *)
(* which is written "ESC" (and the grave accent 0x60, "GRAVE").           *)
(***************************************************************************)
EXTENDS Integers, Sequences, FiniteSets, TLC

\* ------------------------------------------------------------------ bytes

\* The printable ASCII bytes 0x20..0x7e, in byte order.
Printable ==
  << " ", "!", "\"", "#", "$", "%", "&", "'", "(", ")", "*", "+", ",", "-", ".", "/",
     "0", "1", "2", "3", "4", "5", "6", "7", "8", "9", ":", ";", "<", "=", ">", "?",
     "@", "A", "B", "C", "D", "E", "F", "G", "H", "I", "J", "K", "L", "M", "N", "O",
     "P", "Q", "R", "S", "T", "U", "V", "W", "X", "Y", "Z", "[", "\\", "]", "^", "_",
     "GRAVE", "a", "b", "c", "d", "e", "f", "g", "h", "i", "j", "k", "l", "m", "n", "o",
     "p", "q", "r", "s", "t", "u", "v", "w", "x", "y", "z", "{", "|", "}", "~" >>

ESC == "ESC"
NL == "\n"
TAB == "\t"

\* The numeric value of a byte.
ByteVal(b) ==
  CASE b = TAB -> 9
    [] b = NL -> 10
    [] b = ESC -> 27
    [] OTHER -> 31 + (CHOOSE i \in 1..Len(Printable) : Printable[i] = b)

IsDigit(b) == ByteVal(b) >= 48 /\ ByteVal(b) <= 57

\* strings.ToUpper on one ASCII byte.
UpperByte(b) ==
  IF ByteVal(b) >= 97 /\ ByteVal(b) <= 122 THEN Printable[ByteVal(b) - 32 - 31] ELSE b

ToUpper(s) == [i \in 1..Len(s) |-> UpperByte(s[i])]

\* Go's string comparison a < b: byte-wise lexicographic.
RECURSIVE StrLess(_, _)
StrLess(a, b) ==
  IF b = <<>> THEN FALSE
  ELSE IF a = <<>> THEN TRUE
  ELSE IF ByteVal(Head(a)) # ByteVal(Head(b)) THEN ByteVal(Head(a)) < ByteVal(Head(b))
  ELSE StrLess(Tail(a), Tail(b))

RECURSIVE Concat(_)
Concat(ss) == IF ss = <<>> THEN <<>> ELSE Head(ss) \o Concat(Tail(ss))

\* The decimal text of a natural number (fmt's %d).
RECURSIVE Itoa(_)
Itoa(n) ==
  IF n < 10 THEN << Printable[17 + n] >>
  ELSE Itoa(n \div 10) \o << Printable[17 + (n % 10)] >>

\* The number a string of digits denotes (strconv.ParseInt on the model's domain).
RECURSIVE Atoi(_)
Atoi(s) ==
  IF s = <<>> THEN 0 ELSE 10 * Atoi(SubSeq(s, 1, Len(s) - 1)) + (ByteVal(s[Len(s)]) - 48)

Contains(s, b) == \E i \in 1..Len(s) : s[i] = b

Count(s, b) == Cardinality({i \in 1..Len(s) : s[i] = b})

\* ------------------------------------------------------- program constants

colorRed == 31
colorGreen == 32
colorYellow == 33
colorMagenta == 35
colorCyan == 36
colorBold == 1
colorDarkGray == 65

\* zerolog's field names and level values, and this package's own field names.
LevelFieldName == << "l", "e", "v", "e", "l" >>
TimestampFieldName == << "t", "i", "m", "e" >>
MessageFieldName == << "m", "e", "s", "s", "a", "g", "e" >>
CallerFieldName == << "c", "a", "l", "l", "e", "r" >>
ErrorFieldName == << "e", "r", "r", "o", "r" >>
ContextFieldName == << "c", "t", "x" >>
ModeFieldName == << "m", "o", "d", "e" >>
ContextFieldDefault == << "c", "o", "r", "e" >>

LevelTraceValue == << "t", "r", "a", "c", "e" >>
LevelDebugValue == << "d", "e", "b", "u", "g" >>
LevelInfoValue == << "i", "n", "f", "o" >>
LevelWarnValue == << "w", "a", "r", "n" >>
LevelErrorValue == ErrorFieldName
LevelFatalValue == << "f", "a", "t", "a", "l" >>
LevelPanicValue == << "p", "a", "n", "i", "c" >>

\* ----------------------------------------------------------------- values

\* A decoded value (interface{} after json decoding with UseNumber): a string, a
\* json.Number (its token text), nil, a bool (s is "true" or "false"), or an
\* array of one-byte strings (s lists the elements).  b holds a []byte.
VStr(s) == [t |-> "str", s |-> s]
VNum(s) == [t |-> "num", s |-> s]
VNil == [t |-> "nil", s |-> <<>>]
VBool(s) == [t |-> "bool", s |-> s]
VArr(s) == [t |-> "arr", s |-> s]
VBytes(s) == [t |-> "bytes", s |-> s]

RECURSIVE JoinBytes(_, _)
JoinBytes(s, sep) ==
  IF s = <<>> THEN <<>>
  ELSE IF Len(s) = 1 THEN << s[1] >>
  ELSE << s[1] >> \o sep \o JoinBytes(Tail(s), sep)

\* fmt.Sprintf("%s", v).
SprintfS(v) ==
  CASE v.t \in {"str", "num", "bytes"} -> v.s
    [] v.t = "nil" -> << "%", "!", "s", "(", "<", "n", "i", "l", ">", ")" >>
    [] v.t = "bool" -> << "%", "!", "s", "(", "b", "o", "o", "l", "=" >> \o v.s \o << ")" >>
    [] v.t = "arr" -> << "[" >> \o JoinBytes(v.s, << " " >>) \o << "]" >>

\* fmt.Sprintf("%-6s", v): left-justified in a field of six.
RECURSIVE PadRight(_, _)
PadRight(s, n) == IF Len(s) >= n THEN s ELSE PadRight(s \o << " " >>, n)

\* strconv.Quote on the model's bytes.
QuoteByte(b) ==
  CASE b = "\"" -> << "\\", "\"" >>
    [] b = "\\" -> << "\\", "\\" >>
    [] b = NL -> << "\\", "n" >>
    [] b = TAB -> << "\\", "t" >>
    [] b = ESC -> << "\\", "x", "1", "b" >>
    [] OTHER -> << b >>

Quote(s) == << "\"" >> \o Concat([i \in 1..Len(s) |-> QuoteByte(s[i])]) \o << "\"" >>

\* json.Marshal of a decoded value (zerolog.InterfaceMarshalFunc's default).
RECURSIVE MarshalElems(_)
MarshalElems(s) ==
  IF s = <<>> THEN <<>>
  ELSE IF Len(s) = 1 THEN Quote(<< s[1] >>)
  ELSE Quote(<< s[1] >>) \o << "," >> \o MarshalElems(Tail(s))

JsonMarshal(v) ==
  CASE v.t = "nil" -> << "n", "u", "l", "l" >>
    [] v.t = "bool" -> v.s
    [] v.t = "arr" -> << "[" >> \o MarshalElems(v.s) \o << "]" >>
    [] v.t = "str" -> Quote(v.s)
    [] OTHER -> v.s

\* needsQuote: some byte is a control byte, beyond 0x7e, a space, a backslash or
\* a double quote.
needsQuote(s) ==
  \E i \in 1..Len(s) :
    \/ ByteVal(s[i]) < 32
    \/ ByteVal(s[i]) > 126
    \/ s[i] = " "
    \/ s[i] = "\\"
    \/ s[i] = "\""

\* colorize: s wrapped in the SGR code c and a reset, unless disabled.
colorize(s, c, disabled) ==
  IF disabled THEN s
  ELSE << ESC, "[" >> \o Itoa(c) \o << "m" >> \o s \o << ESC, "[", "0", "m" >>


\* ------------------------------------------------------------- formatters

\* What a Formatter call yields: its text, or a run-time panic.
Text(s) == [panic |-> FALSE, s |-> s]
Panics == [panic |-> TRUE, s |-> <<>>]

\* A Formatter supplied by the caller through a Format* field.  "tag" wraps the
\* value's text in angle brackets, "empty" returns the empty string.
CustomFormatter(kind, v) ==
  IF kind = "empty" THEN <<>> ELSE << "<" >> \o SprintfS(v) \o << ">" >>

consoleDefaultPartsOrder ==
  << TimestampFieldName, LevelFieldName, ContextFieldName, ModeFieldName, MessageFieldName >>

\* time.Time.Format(time.Kitchen) ("3:04PM") of a time of day, hour 0..23.
Kitchen(h, m) ==
  Itoa(IF h % 12 = 0 THEN 12 ELSE h % 12) \o << ":" >>
    \o (IF m < 10 THEN << "0" >> ELSE <<>>) \o Itoa(m)
    \o (IF h < 12 THEN << "A", "M" >> ELSE << "P", "M" >>)

\* time.ParseInLocation(time.RFC3339, s, time.Local), for the UTC form
\* "2006-01-02T15:04:05Z"; every other string of the model's domain fails to parse.
ParseRFC3339(s) ==
  LET shape ==
        /\ Len(s) = 20
        /\ \A i \in {1, 2, 3, 4, 6, 7, 9, 10, 12, 13, 15, 16, 18, 19} : IsDigit(s[i])
        /\ s[5] = "-" /\ s[8] = "-" /\ s[11] = "T"
        /\ s[14] = ":" /\ s[17] = ":" /\ s[20] = "Z"
      h == Atoi(SubSeq(s, 12, 13))
      m == Atoi(SubSeq(s, 15, 16))
  IN  IF shape /\ h < 24 /\ m < 60 /\ Atoi(SubSeq(s, 18, 19)) < 60
      THEN [ok |-> TRUE, h |-> h, m |-> m]
      ELSE [ok |-> FALSE, h |-> 0, m |-> 0]

\* json.Number.Int64 succeeds on a token of digits only (the model's tokens are
\* short enough never to overflow).
Int64Ok(s) == s # <<>> /\ \A i \in 1..Len(s) : IsDigit(s[i])

\* consoleDefaultFormatTimestamp, with zerolog.TimeFieldFormat at its default
\* (RFC3339: a number counts seconds), the time format time.Kitchen and the
\* local zone UTC.
consoleDefaultFormatTimestamp(noColor, i) ==
  LET t ==
        CASE i.t = "str" ->
               LET ts == ParseRFC3339(i.s) IN IF ts.ok THEN Kitchen(ts.h, ts.m) ELSE i.s
          [] i.t = "num" ->
               IF Int64Ok(i.s)
               THEN Kitchen((Atoi(i.s) \div 3600) % 24, (Atoi(i.s) \div 60) % 60)
               ELSE i.s
          [] OTHER -> << "<", "n", "i", "l", ">" >>
  IN  colorize(t, colorDarkGray, noColor)

\* s[0:3] of a Go string: a panic when s is shorter than three bytes.
Slice03(s) == IF Len(s) < 3 THEN Panics ELSE Text(SubSeq(s, 1, 3))

consoleDefaultFormatLevel(noColor, i) ==
  IF i.t = "str" THEN
    CASE i.s = LevelTraceValue -> Text(colorize(<< "T", "R", "C" >>, colorMagenta, noColor))
      [] i.s = LevelDebugValue -> Text(colorize(<< "D", "B", "G" >>, colorYellow, noColor))
      [] i.s = LevelInfoValue -> Text(colorize(<< "I", "N", "F" >>, colorGreen, noColor))
      [] i.s = LevelWarnValue -> Text(colorize(<< "W", "R", "N" >>, colorRed, noColor))
      [] i.s = LevelErrorValue ->
           Text(colorize(colorize(<< "E", "R", "R" >>, colorRed, noColor), colorBold, noColor))
      [] i.s = LevelFatalValue ->
           Text(colorize(colorize(<< "F", "T", "L" >>, colorRed, noColor), colorBold, noColor))
      [] i.s = LevelPanicValue ->
           Text(colorize(colorize(<< "P", "N", "C" >>, colorRed, noColor), colorBold, noColor))
      [] OTHER -> Text(colorize(i.s, colorBold, noColor))
  ELSE IF i.t = "nil" THEN Text(colorize(<< "?", "?", "?" >>, colorBold, noColor))
  ELSE Slice03(ToUpper(SprintfS(i)))

consoleDefaultFormatContext(i) ==
  colorize(PadRight(SprintfS(IF i.t = "nil" THEN VStr(ContextFieldDefault) ELSE i), 6),
           colorBold, FALSE)

consoleDefaultFormatMode(i) ==
  IF i.t = "nil" THEN <<>> ELSE colorize(SprintfS(i) \o << ":", " " >>, colorRed, FALSE)

consoleDefaultFormatMessage(i) == IF i.t = "nil" THEN <<>> ELSE SprintfS(i)

consoleDefaultFormatFieldName(noColor, i) ==
  colorize(<< NL, TAB, TAB, TAB >> \o SprintfS(i) \o << "=" >>, colorCyan, noColor)

consoleDefaultFormatFieldValue(i) == SprintfS(i)

consoleDefaultFormatErrFieldName(noColor, i) ==
  colorize(SprintfS(i) \o << "=" >>, colorCyan, noColor)

consoleDefaultFormatErrFieldValue(noColor, i) ==
  colorize(SprintfS(i), colorRed, noColor)

\* ------------------------------------------------------------ the record

\* evt[k] on a map[string]interface{}: nil for an absent key (and on a nil map).
Lookup(evt, k) == IF k \in DOMAIN evt THEN evt[k] ELSE VNil

MapPut(m, k, v) == [x \in (DOMAIN m) \cup {k} |-> IF x = k THEN v ELSE m[x]]

EmptyMap == [x \in {} |-> VNil]


\* ------------------------------------------------------------- rendering

\* The text of the error zerolog.InterfaceMarshalFunc returns when it fails.
MarshalErrorText == << "b", "a", "d" >>

\* zerolog.InterfaceMarshalFunc: json.Marshal unless the renderer's process
\* replaced it by a marshaller that fails (w.MarshalFails).
InterfaceMarshalFunc(w, v) ==
  IF w.MarshalFails THEN [err |-> TRUE, b |-> <<>>] ELSE [err |-> FALSE, b |-> JsonMarshal(v)]

\* A variant of partFormatter that never looks at the overrides.
partFormatterDefaultsOnly(w, p, v) ==
  CASE p = LevelFieldName -> consoleDefaultFormatLevel(w.NoColor, v)
    [] p = TimestampFieldName -> Text(consoleDefaultFormatTimestamp(w.NoColor, v))
    [] p = MessageFieldName -> Text(consoleDefaultFormatMessage(v))
    [] p = ContextFieldName -> Text(consoleDefaultFormatContext(v))
    [] p = ModeFieldName -> Text(consoleDefaultFormatMode(v))
    [] OTHER -> Text(consoleDefaultFormatFieldValue(v))

\* The formatter writePart resolves for part p, applied to v: the override if
\* set, else the part's default, else (an unrecognized name) the field-value
\* formatter.
partFormatter(w, p, v) ==
  CASE p = LevelFieldName ->
         IF w.FormatLevel = "nil" THEN consoleDefaultFormatLevel(w.NoColor, v)
         ELSE Text(CustomFormatter(w.FormatLevel, v))
    [] p = TimestampFieldName ->
         IF w.FormatTimestamp = "nil" THEN Text(consoleDefaultFormatTimestamp(w.NoColor, v))
         ELSE Text(CustomFormatter(w.FormatTimestamp, v))
    [] p = MessageFieldName ->
         IF w.FormatMessage = "nil" THEN Text(consoleDefaultFormatMessage(v))
         ELSE Text(CustomFormatter(w.FormatMessage, v))
    [] p = ContextFieldName ->
         IF w.FormatContext = "nil" THEN Text(consoleDefaultFormatContext(v))
         ELSE Text(CustomFormatter(w.FormatContext, v))
    [] p = ModeFieldName ->
         IF w.FormatMode = "nil" THEN Text(consoleDefaultFormatMode(v))
         ELSE Text(CustomFormatter(w.FormatMode, v))
    [] OTHER ->
         IF w.FormatFieldValue = "nil" THEN Text(consoleDefaultFormatFieldValue(v))
         ELSE Text(CustomFormatter(w.FormatFieldValue, v))

InSeq(s, x) == \E i \in 1..Len(s) : s[i] = x

\* writePart's separator: a space only if buf already holds something.
partSeparator(buf) == IF Len(buf) > 0 THEN << " " >> ELSE <<>>

\* writePart: buf after part p of evt is appended; when the formatter panics,
\* the panic and buf as it was.
writePart(w, buf, evt, p) ==
  IF InSeq(w.PartsExclude, p) THEN Text(buf)
  ELSE LET r == partFormatter(w, p, Lookup(evt, p))
       IN  IF r.panic THEN [panic |-> TRUE, s |-> buf]
           ELSE IF Len(r.s) > 0
                THEN Text(buf \o partSeparator(buf) \o r.s)
                ELSE Text(buf)

\* Write's loop over PartsOrder: writePart for each part in turn, from index i.
RECURSIVE writeParts(_, _, _, _, _)
writeParts(w, buf, evt, order, i) ==
  IF i > Len(order) THEN Text(buf)
  ELSE LET r == writePart(w, buf, evt, order[i])
       IN  IF r.panic THEN r ELSE writeParts(w, r.s, evt, order, i + 1)

\* A variant of ReservedFields that lets mode through as a field.
ReservedFieldsButMode ==
  { LevelFieldName, TimestampFieldName, MessageFieldName, CallerFieldName,
    ContextFieldName }

\* The names writeFields never shows as fields.
ReservedFields ==
  { LevelFieldName, TimestampFieldName, MessageFieldName, CallerFieldName,
    ContextFieldName, ModeFieldName }

\* A variant of SortStrings that sorts in descending byte order.
RECURSIVE SortStringsDescending(_)
SortStringsDescending(S) ==
  IF S = {} THEN <<>>
  ELSE LET m == CHOOSE x \in S : \A y \in S \ {x} : StrLess(y, x)
       IN  << m >> \o SortStringsDescending(S \ {m})

\* sort.Strings of the names in S.
RECURSIVE SortStrings(_)
SortStrings(S) ==
  IF S = {} THEN <<>>
  ELSE LET m == CHOOSE x \in S : \A y \in S \ {x} : StrLess(x, y)
       IN  << m >> \o SortStrings(S \ {m})

\* sort.Search(len(fields), fields[i] >= x): the first index (from 1) whose
\* name is not below x, Len(fields) + 1 if none.
SearchFirstGE(fields, x) ==
  IF \E i \in 1..Len(fields) : ~StrLess(fields[i], x)
  THEN CHOOSE i \in 1..Len(fields) :
         /\ ~StrLess(fields[i], x)
         /\ \A j \in 1..(i - 1) : StrLess(fields[j], x)
  ELSE Len(fields) + 1

\* The names left after the loop that skips excluded and reserved names, sorted.
sortedFields(w, evt) ==
  SortStrings({f \in DOMAIN evt : ~InSeq(w.FieldsExclude, f) /\ f \notin ReservedFields})

\* "Move the error field to the front": the name found by the search is blanked,
\* "error" is prepended and the blank names are dropped.
promoteError(fields) ==
  LET ei == SearchFirstGE(fields, ErrorFieldName)
  IN  IF ei <= Len(fields) /\ fields[ei] = ErrorFieldName
      THEN SelectSeq(<< ErrorFieldName >> \o [fields EXCEPT ![ei] = <<>>],
                     LAMBDA f : f # <<>>)
      ELSE fields

\* The text of a field's name: the error pair's name formatter for "error", the
\* generic one otherwise, the override if set.
fieldName(w, field) ==
  IF field = ErrorFieldName
  THEN IF w.FormatErrFieldName = "nil"
       THEN consoleDefaultFormatErrFieldName(w.NoColor, VStr(field))
       ELSE CustomFormatter(w.FormatErrFieldName, VStr(field))
  ELSE IF w.FormatFieldName = "nil"
       THEN consoleDefaultFormatFieldName(w.NoColor, VStr(field))
       ELSE CustomFormatter(w.FormatFieldName, VStr(field))

\* A variant of marshalFailure that renders nothing for the value.
marshalFailureSilent(w, cause) == <<>>

\* The inline diagnostic written for a value InterfaceMarshalFunc fails on:
\* colorize("[error: %v]", colorRed, w.NoColor) with the error for %v.
marshalFailure(w, cause) ==
  colorize(<< "[", "e", "r", "r", "o", "r", ":", " " >> \o cause \o << "]" >>,
           colorRed, w.NoColor)

\* The text of a field's value: a string raw or quoted, a json.Number by its
\* token, anything else through InterfaceMarshalFunc.
fieldValue(w, evt, field) ==
  LET fv(v) ==
        IF field = ErrorFieldName
        THEN IF w.FormatErrFieldValue = "nil"
             THEN consoleDefaultFormatErrFieldValue(w.NoColor, v)
             ELSE CustomFormatter(w.FormatErrFieldValue, v)
        ELSE IF w.FormatFieldValue = "nil"
             THEN consoleDefaultFormatFieldValue(v)
             ELSE CustomFormatter(w.FormatFieldValue, v)
      fValue == Lookup(evt, field)
  IN  CASE fValue.t = "str" ->
             IF needsQuote(fValue.s) THEN fv(VStr(Quote(fValue.s))) ELSE fv(fValue)
        [] fValue.t = "num" -> fv(fValue)
        [] OTHER ->
             LET m == InterfaceMarshalFunc(w, fValue)
             IN  IF m.err THEN marshalFailure(w, MarshalErrorText) ELSE fv(VBytes(m.b))

\* The text writeFields appends for one field: its name, then its value.
fieldEntry(w, evt, field) == fieldName(w, field) \o fieldValue(w, evt, field)

\* writeFields' last loop: every entry from index i, a space after all but the
\* last.
RECURSIVE fieldEntries(_, _, _, _)
fieldEntries(w, evt, fields, i) ==
  IF i > Len(fields) THEN <<>>
  ELSE fieldEntry(w, evt, fields[i])
         \o (IF i < Len(fields) THEN << " " >> ELSE <<>>)
         \o fieldEntries(w, evt, fields, i + 1)

\* The names writeFields renders, in order.
renderedFields(w, evt) == promoteError(sortedFields(w, evt))

\* A variant of blockSeparator that forgets to look at the buffer.
blockSeparatorAlways(buf, fields) == IF Len(fields) > 0 THEN << " ", " " >> ELSE <<>>

\* writeFields' separator: two spaces if buf already holds something and there
\* are fields.
blockSeparator(buf, fields) ==
  IF Len(buf) > 0 /\ Len(fields) > 0 THEN << " ", " " >> ELSE <<>>

\* writeFields: buf after the fields of evt are appended.
writeFields(w, evt, buf) ==
  buf \o blockSeparator(buf, sortedFields(w, evt))
      \o fieldEntries(w, evt, renderedFields(w, evt), 1)


\* --------------------------------------------------------------- decoding

\* The input p of Write is a sequence of JSON tokens: the punctuation "{", "}",
\* ":", ",", and the values "str", "num", "null", "bool" and "arr" (a whole array
\* of one-byte strings), each with its text s.
Tok(k) == [k |-> k, s |-> <<>>]
TStr(s) == [k |-> "str", s |-> s]
TNum(s) == [k |-> "num", s |-> s]
TBool(s) == [k |-> "bool", s |-> s]
TArr(s) == [k |-> "arr", s |-> s]

ValueOf(tk) ==
  CASE tk.k = "str" -> VStr(tk.s)
    [] tk.k = "num" -> VNum(tk.s)
    [] tk.k = "bool" -> VBool(tk.s)
    [] tk.k = "arr" -> VArr(tk.s)
    [] OTHER -> VNil

\* len(p): the bytes of the tokens' text.
TokLen(tk) ==
  CASE tk.k \in {"{", "}", ":", ","} -> 1
    [] tk.k = "null" -> 4
    [] OTHER -> Len(JsonMarshal(ValueOf(tk)))

RECURSIVE RawLen(_)
RawLen(p) == IF p = <<>> THEN 0 ELSE TokLen(Head(p)) + RawLen(Tail(p))

DecodeError == [err |-> TRUE, evt |-> EmptyMap]
Decoded(m) == [err |-> FALSE, evt |-> m]

\* The members of an object from token i on; st is what the scanner expects.
RECURSIVE decodeObject(_, _, _, _, _)
decodeObject(p, i, m, st, key) ==
  IF i > Len(p) THEN DecodeError
  ELSE LET tk == p[i]
       IN  CASE st = "first" ->
                  IF tk.k = "}" THEN Decoded(m)
                  ELSE IF tk.k = "str" THEN decodeObject(p, i + 1, m, "colon", tk.s)
                  ELSE DecodeError
             [] st = "key" ->
                  IF tk.k = "str" THEN decodeObject(p, i + 1, m, "colon", tk.s)
                  ELSE DecodeError
             [] st = "colon" ->
                  IF tk.k = ":" THEN decodeObject(p, i + 1, m, "value", key)
                  ELSE DecodeError
             [] st = "value" ->
                  IF tk.k \in {"str", "num", "null", "bool", "arr"}
                  THEN decodeObject(p, i + 1, MapPut(m, key, ValueOf(tk)), "next", key)
                  ELSE DecodeError
             [] OTHER ->
                  IF tk.k = "," THEN decodeObject(p, i + 1, m, "key", key)
                  ELSE IF tk.k = "}" THEN Decoded(m)
                  ELSE DecodeError

\* json.NewDecoder(p) with UseNumber, Decode(&evt) into a map[string]interface{}:
\* the first JSON value of the stream is read and what follows it is left
\* unread; an object fills the map, null leaves the map nil, any other value is
\* an error, and so is a stream that ends before the value does.
Decode(p) ==
  IF p = <<>> THEN DecodeError
  ELSE CASE p[1].k = "{" -> decodeObject(p, 2, EmptyMap, "first", <<>>)
         [] p[1].k = "null" -> Decoded(EmptyMap)
         [] OTHER -> DecodeError


\* ------------------------------------------------------- inputs, renderers

\* The tokens of the members ms (pairs of a name and a value token) of an object.
RECURSIVE Members(_)
Members(ms) ==
  IF ms = <<>> THEN <<>>
  ELSE << TStr(ms[1][1]), Tok(":"), ms[1][2] >>
         \o (IF Len(ms) > 1 THEN << Tok(",") >> ELSE <<>>)
         \o Members(Tail(ms))

Obj(ms) == << Tok("{") >> \o Members(ms) \o << Tok("}") >>

\* The inputs Write is called with: a bare scalar, a truncated object, null,
\* and records.
Inputs ==
  << << TNum(<< "5" >>) >>,
     << Tok("{"), TStr(<< "a" >>), Tok(":") >>,
     << Tok("null") >>,
     Obj(<< << LevelFieldName, TStr(LevelInfoValue) >>,
            << MessageFieldName, TStr(<< "h", "i", NL >>) >>,
            << TimestampFieldName, TNum(<< "6", "0" >>) >> >>),
     Obj(<< << ErrorFieldName, TStr(<< "b", "o", "o", "m" >>) >>,
            << << "a" >>, TStr(<< "1" >>) >> >>),
     Obj(<< << << "a" >>, TStr(<< "2" >>) >>, << << "b" >>, TStr(<< "1" >>) >> >>),
     Obj(<< << LevelFieldName, TNum(<< "5" >>) >> >>),
     Obj(<< << << >>, TStr(<< "x" >>) >>, << ErrorFieldName, TStr(<< "e" >>) >> >>),
     Obj(<< << ModeFieldName, Tok("null") >>,
            << LevelFieldName, TStr(<< "x" >>) >>,
            << MessageFieldName, TStr(<< "m" >>) >> >>),
     Obj(<< << LevelFieldName, TStr(<< "x" >>) >>,
            << MessageFieldName, TStr(<< "m" >>) >> >>),
     Obj(<< << ContextFieldName, TStr(<< "d", "b" >>) >>,
            << ModeFieldName, TStr(<< "w" >>) >>,
            << LevelFieldName, TStr(LevelErrorValue) >>,
            << CallerFieldName, TStr(<< "c" >>) >>,
            << << "f", "o", "o" >>, TStr(<< "v" >>) >>,
            << << "k" >>, TStr(<< "a", " ", "b" >>) >>,
            << << "n" >>, TNum(<< "1", "2" >>) >>,
            << << "f" >>, Tok("null") >>,
            << << "t" >>, TBool(<< "t", "r", "u", "e" >>) >> >>) >>

\* The inputs of the concurrent runs: a record with fields, a record whose
\* level formatter panics, and a bare scalar.
ConcInputs == << Inputs[5], Inputs[7], Inputs[1] >>

\* The zero CodecometWriter that log.Init builds: every option at its default.
ZeroWriter ==
  [ NoColor |-> FALSE, PartsOrderNil |-> TRUE, PartsOrder |-> <<>>,
    PartsExclude |-> <<>>, FieldsExclude |-> <<>>,
    FormatTimestamp |-> "nil", FormatLevel |-> "nil", FormatMessage |-> "nil",
    FormatContext |-> "nil", FormatMode |-> "nil", FormatFieldName |-> "nil",
    FormatFieldValue |-> "nil", FormatErrFieldName |-> "nil",
    FormatErrFieldValue |-> "nil", FormatExtra |-> FALSE, MarshalFails |-> FALSE ]

\* The renderers of the runs.
Writers ==
  { ZeroWriter,
    [ZeroWriter EXCEPT !.NoColor = TRUE],
    [ZeroWriter EXCEPT !.NoColor = TRUE, !.PartsOrderNil = FALSE],
    [ZeroWriter EXCEPT !.NoColor = TRUE, !.FormatExtra = TRUE],
    [ZeroWriter EXCEPT !.NoColor = TRUE,
                       !.PartsOrderNil = FALSE,
                       !.PartsOrder = << MessageFieldName, << "f", "o", "o" >>,
                                         LevelFieldName, ModeFieldName,
                                         ContextFieldName >>,
                       !.PartsExclude = << ContextFieldName >>,
                       !.FieldsExclude = << << "a" >> >>,
                       !.FormatMessage = "tag", !.FormatFieldName = "tag",
                       !.MarshalFails = TRUE] }

ConcWriters == { ZeroWriter, [ZeroWriter EXCEPT !.NoColor = TRUE, !.FormatExtra = TRUE] }

\* What a FormatExtra hook may do: append text and succeed, or append text and
\* fail.
HookResults ==
  { [out |-> << "#" >>, err |-> FALSE], [out |-> << "#" >>, err |-> TRUE] }

\* ------------------------------------------------------------------ bounds

MaxCalls == 2
MaxConcCalls == 2

\* ------------------------------------------------------------------- state

VARIABLES
  w,       \* the CodecometWriter, read-only after construction
  pool,    \* consoleBufPool: the buffers it holds
  live,    \* the buffers that exist: those of the pool and those callers hold
  bufs,    \* the content of every buffer
  pc,      \* where each caller is in Write
  call,    \* Write's locals, per caller
  sink,    \* w.Out: every Write it was handed, and how many bytes it took
  done,    \* the calls that returned (or panicked), in order of return
  ncalls   \* the calls started

vars == << w, pool, live, bufs, pc, call, sink, done, ncalls >>

Threads == {1, 2}

\* A buffer is made only when the pool has none to give, so there are never
\* more buffers than callers.
Buffers == 1..Cardinality(Threads)

\* Write's locals: the input p, the decoded evt, the buffer, the results n and
\* err, whether the call panicked; and, for the record, what the hook did (hook,
\* hookOut) and the names writeFields rendered (fields).
NoCall ==
  [ id |-> 0, p |-> <<>>, evt |-> EmptyMap, buf |-> 0, n |-> 0, err |-> "nil",
    panic |-> FALSE, hook |-> "none", hookOut |-> <<>>, fields |-> <<>> ]

InitWith(W) ==
  /\ w \in W
  /\ pool = {}
  /\ live = {}
  /\ bufs = [b \in Buffers |-> <<>>]
  /\ pc = [t \in Threads |-> "idle"]
  /\ call = [t \in Threads |-> NoCall]
  /\ sink = <<>>
  /\ done = <<>>
  /\ ncalls = 0

Init == InitWith(Writers)

InitConc == InitWith(ConcWriters)

\* Write's part order: the default when PartsOrder is nil.
partsOrder == IF w.PartsOrderNil THEN consoleDefaultPartsOrder ELSE w.PartsOrder

\* A variant of poolGet that leaves the buffer it gives in the pool.
poolGetShared(b) ==
  IF pool # {}
  THEN /\ b \in pool
       /\ UNCHANGED << pool, live, bufs >>
  ELSE /\ b = CHOOSE x \in Buffers \ live : \A y \in Buffers \ live : x <= y
       /\ live' = live \cup {b}
       /\ bufs' = [bufs EXCEPT ![b] = <<>>]
       /\ pool' = pool

\* consoleBufPool.Get: a buffer of the pool or, when it has none, a new one
\* from New (bytes.NewBuffer: empty).
poolGet(b) ==
  IF pool # {}
  THEN /\ b \in pool
       /\ pool' = pool \ {b}
       /\ UNCHANGED << live, bufs >>
  ELSE /\ b = CHOOSE x \in Buffers \ live : \A y \in Buffers \ live : x <= y
       /\ live' = live \cup {b}
       /\ bufs' = [bufs EXCEPT ![b] = <<>>]
       /\ pool' = pool

\* sync.Pool may drop a buffer it holds at any time (the garbage collector
\* takes it).
PoolDrop ==
  /\ \E b \in pool :
       /\ pool' = pool \ {b}
       /\ live' = live \ {b}
  /\ UNCHANGED << w, bufs, pc, call, sink, done, ncalls >>

\* Write is entered with input p and takes its buffer.
Call(t, I, max) ==
  /\ pc[t] = "idle"
  /\ ncalls < max
  /\ \E i \in 1..Len(I), b \in Buffers :
       /\ poolGet(b)
       /\ call' = [call EXCEPT ![t] = [NoCall EXCEPT !.id = ncalls + 1, !.p = I[i], !.buf = b]]
  /\ ncalls' = ncalls + 1
  /\ pc' = [pc EXCEPT ![t] = "decode"]
  /\ UNCHANGED << w, sink, done >>

\* d.Decode(&evt): on an error Write returns n = 0 and the error.
DecodeEvent(t) ==
  /\ pc[t] = "decode"
  /\ LET r == Decode(call[t].p)
     IN  IF r.err
         THEN /\ call' = [call EXCEPT ![t].err = "decode"]
              /\ pc' = [pc EXCEPT ![t] = "defer"]
         ELSE /\ call' = [call EXCEPT ![t].evt = r.evt]
              /\ pc' = [pc EXCEPT ![t] = "parts"]
  /\ UNCHANGED << w, pool, live, bufs, sink, done, ncalls >>

\* The loop over w.PartsOrder.
WriteParts(t) ==
  /\ pc[t] = "parts"
  /\ LET r == writeParts(w, bufs[call[t].buf], call[t].evt, partsOrder, 1)
     IN  /\ bufs' = [bufs EXCEPT ![call[t].buf] = r.s]
         /\ call' = [call EXCEPT ![t].panic = r.panic]
         /\ pc' = [pc EXCEPT ![t] = IF r.panic THEN "defer" ELSE "fields"]
  /\ UNCHANGED << w, pool, live, sink, done, ncalls >>

WriteFields(t) ==
  /\ pc[t] = "fields"
  /\ bufs' = [bufs EXCEPT ![call[t].buf] = writeFields(w, call[t].evt, @)]
  /\ call' = [call EXCEPT ![t].fields = renderedFields(w, call[t].evt)]
  /\ pc' = [pc EXCEPT ![t] = "extra"]
  /\ UNCHANGED << w, pool, live, sink, done, ncalls >>

\* A variant of hookAborts that ignores the hook's error.
hookAbortsNever(h) == FALSE

\* Whether Write returns after the hook: it does when the hook failed.
hookAborts(h) == h.err

\* w.FormatExtra, when set: on its error Write returns n = 0 and the error.
FormatExtra(t) ==
  /\ pc[t] = "extra"
  /\ IF w.FormatExtra
     THEN \E h \in HookResults :
            /\ bufs' = [bufs EXCEPT ![call[t].buf] = @ \o h.out]
            /\ call' = [call EXCEPT ![t].err = IF hookAborts(h) THEN "hook" ELSE "nil",
                                    ![t].hook = IF h.err THEN "failed" ELSE "ok",
                                    ![t].hookOut = h.out]
            /\ pc' = [pc EXCEPT ![t] = IF hookAborts(h) THEN "defer" ELSE "newline"]
     ELSE /\ pc' = [pc EXCEPT ![t] = "newline"]
          /\ UNCHANGED << bufs, call >>
  /\ UNCHANGED << w, pool, live, sink, done, ncalls >>

\* A variant of writeNewline that terminates the line twice.
writeNewlineTwice(buf) == buf \o << NL, NL >>

\* buf.WriteByte('\n'): buf with the line terminator appended.
writeNewline(buf) == Append(buf, NL)

\* buf.WriteByte('\n'), which never fails.
WriteNewline(t) ==
  /\ pc[t] = "newline"
  /\ bufs' = [bufs EXCEPT ![call[t].buf] = writeNewline(@)]
  /\ pc' = [pc EXCEPT ![t] = "flush"]
  /\ UNCHANGED << w, pool, live, call, sink, done, ncalls >>

\* How many bytes w.Out.Write may take of n: all of them, or fewer when it fails
\* (here: all but the last).
sinkTakes(n) == {n, n - 1}

\* A variant of flushData that hands the sink the content without its last byte.
flushDataChunk(buf) == SubSeq(buf, 1, Len(buf) - 1)

\* What buf.WriteTo hands to w.Out.Write: all of the buffer's content.
flushData(buf) == buf

\* buf.WriteTo(w.Out): one Write of the buffer's content to the sink; the buffer
\* keeps what the sink did not take.  Write returns len(p) and WriteTo's error.
Flush(t) ==
  /\ pc[t] = "flush"
  /\ LET data == flushData(bufs[call[t].buf])
     IN  \E took \in sinkTakes(Len(data)) :
           /\ sink' = Append(sink, [call |-> call[t].id, data |-> data, took |-> took])
           /\ bufs' = [bufs EXCEPT ![call[t].buf] = SubSeq(data, took + 1, Len(data))]
           /\ call' = [call EXCEPT ![t].n = RawLen(call[t].p),
                                   ![t].err = IF took = Len(data) THEN "nil" ELSE "sink"]
  /\ pc' = [pc EXCEPT ![t] = "defer"]
  /\ UNCHANGED << w, pool, live, done, ncalls >>

\* A variant of bufReset that leaves the buffer as it is.
bufResetNot(b) == b

\* What the deferred function leaves in the buffer: buf.Reset().
bufReset(b) == <<>>

\* The deferred function, on every way out of Write: buf.Reset() and
\* consoleBufPool.Put(buf).  The call is over.
Release(t) ==
  /\ pc[t] = "defer"
  /\ bufs' = [bufs EXCEPT ![call[t].buf] = bufReset(@)]
  /\ pool' = pool \cup {call[t].buf}
  /\ done' = Append(done, [id |-> call[t].id, p |-> call[t].p, n |-> call[t].n,
                           err |-> call[t].err, panic |-> call[t].panic,
                           hook |-> call[t].hook, hookOut |-> call[t].hookOut,
                           fields |-> call[t].fields])
  /\ call' = [call EXCEPT ![t] = NoCall]
  /\ pc' = [pc EXCEPT ![t] = "idle"]
  /\ UNCHANGED << w, live, sink, ncalls >>

Step(t, I, max) ==
  \/ Call(t, I, max)
  \/ DecodeEvent(t)
  \/ WriteParts(t)
  \/ WriteFields(t)
  \/ FormatExtra(t)
  \/ WriteNewline(t)
  \/ Flush(t)
  \/ Release(t)

\* One caller: Write calls one after another.
Next == Step(1, Inputs, MaxCalls) \/ PoolDrop

\* Two callers writing at the same time.
NextConc == (\E t \in Threads : Step(t, ConcInputs, MaxConcCalls)) \/ PoolDrop

Spec == Init /\ [][Next]_vars

SpecConc == InitConc /\ [][NextConc]_vars


\* ------------------------------------------------------------ properties

\* The sink writes call id made.
CallOps(id) == SelectSeq(sink, LAMBDA op : op.call = id)

\* The call returned a nil error.
Succeeded(c) == ~c.panic /\ c.err = "nil"

InFlight(t) == pc[t] # "idle"

\* The sink failed (took fewer bytes than it was handed) on a write of call id.
SinkFailedFor(id) == \E k \in 1..Len(sink) : sink[k].call = id /\ sink[k].took < Len(sink[k].data)

\* The bytes the sink holds.
SinkContent == Concat([k \in 1..Len(sink) |-> SubSeq(sink[k].data, 1, sink[k].took)])

\* p spells exactly one JSON object: "{", members separated by commas, "}", and
\* nothing else.
IsObject(p) ==
  /\ Len(p) >= 2
  /\ p[1].k = "{"
  /\ p[Len(p)].k = "}"
  /\ LET inner == SubSeq(p, 2, Len(p) - 1)
     IN  \/ inner = <<>>
         \/ /\ Len(inner) % 4 = 3
            /\ \A j \in 1..Len(inner) :
                 CASE j % 4 = 1 -> inner[j].k = "str"
                   [] j % 4 = 2 -> inner[j].k = ":"
                   [] j % 4 = 3 -> inner[j].k \in {"str", "num", "null", "bool", "arr"}
                   [] OTHER -> inner[j].k = ","

\* The record of an input that spells an object: its members, the last of a
\* repeated name winning.
RecordOf(p) ==
  LET n == (Len(p) - 1) \div 4
      keys == {p[4 * j - 2].s : j \in 1..n}
      last(k) == CHOOSE j \in 1..n :
                   /\ p[4 * j - 2].s = k
                   /\ \A i \in (j + 1)..n : p[4 * i - 2].s # k
  IN  [k \in keys |-> ValueOf(p[4 * last(k)])]

\* What a renderer that never ran before renders for call c up to its hook's
\* output, and the line it flushes.
FreshBody(c) ==
  LET evt == Decode(c.p).evt
  IN  writeFields(w, evt, writeParts(w, <<>>, evt, partsOrder, 1).s) \o c.hookOut

FreshLine(c) == FreshBody(c) \o << NL >>

EndsWithNL(s) == s # <<>> /\ s[Len(s)] = NL

EndsWithOneNL(s) == EndsWithNL(s) /\ ~EndsWithNL(SubSeq(s, 1, Len(s) - 1))

\* C1: an input that is not a well-formed single JSON object makes Write return
\* a decode error and n = 0, and the sink gets nothing from the call.
C1_NonObjectRejected ==
  \A i \in 1..Len(done) :
    ~IsObject(done[i].p) =>
      /\ done[i].err = "decode"
      /\ done[i].n = 0
      /\ CallOps(done[i].id) = <<>>

\* C2: when the FormatExtra hook fails, Write returns the hook's error and
\* n = 0, no line terminator is appended to what parts, fields and hook put in
\* the buffer, and the sink gets nothing from the call.
C2_HookFailureAborts ==
  /\ \A i \in 1..Len(done) :
       done[i].hook = "failed" =>
         /\ done[i].err = "hook"
         /\ ~done[i].panic
         /\ done[i].n = 0
         /\ CallOps(done[i].id) = <<>>
  /\ \A t \in Threads :
       call[t].hook = "failed" =>
         /\ pc[t] = "defer"
         /\ call[t].err = "hook"
         /\ bufs[call[t].buf] = FreshBody(call[t])
         /\ CallOps(call[t].id) = <<>>

\* C2's case: a call whose hook failed after fields were rendered has returned.
C2_Witness ==
  \E i \in 1..Len(done) : done[i].hook = "failed" /\ Len(done[i].fields) > 0

\* C3 as claimed: what a successful Write flushes ends with exactly one line
\* terminator.
C3_EndsWithExactlyOneNL ==
  \A i \in 1..Len(done) :
    Succeeded(done[i]) =>
      /\ Len(CallOps(done[i].id)) = 1
      /\ EndsWithOneNL(CallOps(done[i].id)[1].data)

\* C3 as amended: what a successful Write flushes ends with the line terminator
\* Write appends, and with exactly one whenever what parts, fields and hook
\* rendered does not itself end with one.
C3_EndsWithAppendedNL ==
  \A i \in 1..Len(done) :
    Succeeded(done[i]) =>
      /\ Len(CallOps(done[i].id)) = 1
      /\ EndsWithNL(CallOps(done[i].id)[1].data)
      /\ ~EndsWithNL(FreshBody(done[i])) => EndsWithOneNL(CallOps(done[i].id)[1].data)

\* C3's case: a successful call with parts, fields and hook output.
C3_Witness ==
  \E i \in 1..Len(done) :
    /\ Succeeded(done[i])
    /\ done[i].hook = "ok"
    /\ Len(done[i].fields) > 0
    /\ ~EndsWithNL(FreshBody(done[i]))

\* C4: a well-formed record whose hook is absent or succeeds is rendered: Write
\* completes with a nil error and flushes exactly one line (the sink taking
\* what it is handed).
C4_WellFormedAlwaysRendered ==
  \A i \in 1..Len(done) :
    (IsObject(done[i].p) /\ done[i].hook # "failed" /\ ~SinkFailedFor(done[i].id)) =>
      /\ Succeeded(done[i])
      /\ Len(CallOps(done[i].id)) = 1

\* The field names the field renderer is to show: the record's names but the
\* reserved and the excluded ones, in byte order, "error" first.
ExpectedFields(evt) ==
  LET C == {f \in DOMAIN evt : f \notin ReservedFields /\ ~InSeq(w.FieldsExclude, f)}
  IN  IF ErrorFieldName \in C
      THEN << ErrorFieldName >> \o SortStrings(C \ {ErrorFieldName})
      ELSE SortStrings(C)

\* C5: writeFields renders exactly the record's names but the reserved and the
\* excluded ones, each once, in byte order with "error" moved to the front.
C5_FieldOrder ==
  \A i \in 1..Len(done) :
    (IsObject(done[i].p) /\ ~done[i].panic) =>
      done[i].fields = ExpectedFields(RecordOf(done[i].p))

DefaultFormatters ==
  /\ w.FormatTimestamp = "nil" /\ w.FormatLevel = "nil" /\ w.FormatMessage = "nil"
  /\ w.FormatContext = "nil" /\ w.FormatMode = "nil" /\ w.FormatFieldName = "nil"
  /\ w.FormatFieldValue = "nil" /\ w.FormatErrFieldName = "nil"
  /\ w.FormatErrFieldValue = "nil"

\* The call with number id: returned, or in flight.
CallById(id) ==
  IF \E i \in 1..Len(done) : done[i].id = id
  THEN LET i == CHOOSE i \in 1..Len(done) : done[i].id = id
       IN  [p |-> done[i].p, hookOut |-> done[i].hookOut]
  ELSE LET t == CHOOSE t \in Threads : call[t].id = id
       IN  [p |-> call[t].p, hookOut |-> call[t].hookOut]

\* C6: with NoColor set and the default formatters, nothing Write hands to the
\* sink for a well-formed record holds an escape byte.
C6_NoColorNoEscape ==
  (w.NoColor /\ DefaultFormatters) =>
    \A k \in 1..Len(sink) :
      IsObject(CallById(sink[k].call).p) => ~Contains(sink[k].data, ESC)

\* C7: a buffer is held by one call in flight at a time and is not in the pool
\* meanwhile; every buffer of the pool is empty; every buffer is in the pool or
\* held by a call in flight (each call that is over gave its buffer back).
C7_BufferDiscipline ==
  /\ \A t1, t2 \in Threads :
       (t1 # t2 /\ InFlight(t1) /\ InFlight(t2)) => call[t1].buf # call[t2].buf
  /\ \A t \in Threads : InFlight(t) => (call[t].buf \in live /\ call[t].buf \notin pool)
  /\ \A b \in pool : bufs[b] = <<>>
  /\ live = pool \cup {call[t].buf : t \in {x \in Threads : InFlight(x)}}

\* C7's case: two calls in flight, each with rendered text in its buffer, one
\* of them on its way out with an error.
C7_Witness ==
  /\ \A t \in Threads : InFlight(t) /\ bufs[call[t].buf] # <<>>
  /\ \E t \in Threads : pc[t] = "defer" /\ call[t].err # "nil"

\* C8: every write the sink is handed is the complete line of the call that
\* made it, no call writes twice, and a successful call has written once.
C8_OneWritePerLine ==
  /\ \A k \in 1..Len(sink) :
       /\ sink[k].data = FreshLine(CallById(sink[k].call))
       /\ \A j \in 1..Len(sink) : j # k => sink[j].call # sink[k].call
  /\ \A i \in 1..Len(done) : Succeeded(done[i]) => Len(CallOps(done[i].id)) = 1
  /\ \A t \in Threads : CallOps(call[t].id) # <<>> => pc[t] = "defer"

\* C8's case: a call is still rendering into its buffer while the sink already
\* holds the line of a call that started after it.
C8_Witness ==
  \E t \in Threads :
    /\ pc[t] \in {"fields", "extra", "newline", "flush"}
    /\ bufs[call[t].buf] # <<>>
    /\ \E k \in 1..Len(sink) : sink[k].call > call[t].id

\* C9: after calls made one after another, the sink never failing, the sink
\* holds the lines of the calls that returned a nil error, in call order, each
\* as a renderer that never ran before renders it.
C9_SequentialLines ==
  (pc[1] = "idle" /\ \A i \in 1..Len(done) : ~SinkFailedFor(done[i].id)) =>
    SinkContent =
      Concat([i \in 1..Len(done) |->
                IF Succeeded(done[i]) THEN FreshLine(done[i]) ELSE <<>>])

\* C9's case: a call that failed in its hook, with text in the buffer, then a
\* call that succeeded.
C9_Witness ==
  /\ pc[1] = "idle"
  /\ Len(done) = 2
  /\ done[1].hook = "failed" /\ Len(done[1].fields) > 0
  /\ Succeeded(done[2])

RECURSIVE JoinSeqs(_, _)
JoinSeqs(ss, sep) ==
  IF ss = <<>> THEN <<>>
  ELSE IF Len(ss) = 1 THEN ss[1]
  ELSE ss[1] \o sep \o JoinSeqs(Tail(ss), sep)

\* The texts of the parts of evt that are not excluded and not empty, in order.
PartTexts(evt) ==
  SelectSeq([i \in 1..Len(partsOrder) |->
               IF InSeq(w.PartsExclude, partsOrder[i]) THEN <<>>
               ELSE partFormatter(w, partsOrder[i], Lookup(evt, partsOrder[i])).s],
            LAMBDA s : s # <<>>)

\* C10: a rendered line is its non-empty parts with one space between them,
\* then two spaces if there are parts and fields, then the field entries with
\* one space between them.
C10_Separators ==
  \A i \in 1..Len(done) :
    Succeeded(done[i]) =>
      LET evt == Decode(done[i].p).evt
          parts == PartTexts(evt)
          entries == [j \in 1..Len(done[i].fields) |-> fieldEntry(w, evt, done[i].fields[j])]
      IN  CallOps(done[i].id)[1].data =
            JoinSeqs(parts, << " " >>)
              \o (IF parts # <<>> /\ entries # <<>> THEN << " ", " " >> ELSE <<>>)
              \o JoinSeqs(entries, << " " >>)
              \o done[i].hookOut \o << NL >>

\* C10's case: a line with several parts, an empty part and several fields.
C10_Witness ==
  \E i \in 1..Len(done) :
    /\ Succeeded(done[i])
    /\ Len(done[i].fields) >= 2
    /\ Len(PartTexts(Decode(done[i].p).evt)) \in 2..(Len(partsOrder) - 1)

\* The names in fields whose value writeFields hands to InterfaceMarshalFunc:
\* neither a string nor a json.Number.
MarshalledFields(evt, fields) ==
  {f \in DOMAIN evt : InSeq(fields, f) /\ evt[f].t \notin {"str", "num"}}

\* evt without the names in F.
Without(evt, F) == [k \in (DOMAIN evt) \ F |-> evt[k]]

\* C11: when marshalling fails for fields of a record, each such field is its
\* name followed by "[error: <cause>]" (in the warning color unless NoColor),
\* every part and every other field is rendered as the record without those
\* fields renders it, and, the hook and the sink not failing, the line is
\* terminated and flushed with a nil error.
C11_MarshalFailureInline ==
  \A i \in 1..Len(done) :
    LET evt == Decode(done[i].p).evt
        bad == MarshalledFields(evt, done[i].fields)
        rest == Without(evt, bad)
        diag == colorize(<< "[", "e", "r", "r", "o", "r", ":", " " >>
                           \o MarshalErrorText \o << "]" >>, colorRed, w.NoColor)
        parts == PartTexts(rest)
        entries == [j \in 1..Len(done[i].fields) |->
                      IF done[i].fields[j] \in bad
                      THEN fieldName(w, done[i].fields[j]) \o diag
                      ELSE fieldEntry(w, rest, done[i].fields[j])]
    IN  (/\ w.MarshalFails
         /\ IsObject(done[i].p)
         /\ bad # {}
         /\ done[i].hook # "failed"
         /\ ~SinkFailedFor(done[i].id)) =>
          /\ Succeeded(done[i])
          /\ Len(CallOps(done[i].id)) = 1
          /\ CallOps(done[i].id)[1].data =
               JoinSeqs(parts, << " " >>)
                 \o (IF parts # <<>> THEN << " ", " " >> ELSE <<>>)
                 \o JoinSeqs(entries, << " " >>)
                 \o done[i].hookOut \o << NL >>

\* C11's case: a flushed line with parts, fields whose marshalling failed and
\* fields of string and number values.
C11_Witness ==
  \E i \in 1..Len(done) :
    LET evt == Decode(done[i].p).evt
        bad == MarshalledFields(evt, done[i].fields)
    IN  /\ w.MarshalFails
        /\ Succeeded(done[i])
        /\ bad # {}
        /\ \E j \in 1..Len(done[i].fields) : done[i].fields[j] \notin bad
        /\ PartTexts(evt) # <<>>

\* The record {a: "2", b: "1"}.
RecordAB == (<< "a" >> :> VStr(<< "2" >>)) @@ (<< "b" >> :> VStr(<< "1" >>))

\* Call c rendered the record {a: "2", b: "1"} with an empty (not nil) parts
\* order, the default formatters and a nil error.
RendersABWithoutParts(c) ==
  /\ IsObject(c.p) /\ RecordOf(c.p) = RecordAB
  /\ partsOrder = <<>>
  /\ DefaultFormatters
  /\ Succeeded(c)

\* C12 as claimed: the record {a: "2", b: "1"} rendered with no parts gives the
\* line "b=1 a=2" (NoColor set), with nothing before it.
C12_FieldBlockBThenA ==
  \A i \in 1..Len(done) :
    (RendersABWithoutParts(done[i]) /\ w.NoColor) =>
      CallOps(done[i].id)[1].data =
        << "b", "=", "1", " ", "a", "=", "2" >> \o done[i].hookOut \o << NL >>

\* C12 as amended: the record {a: "2", b: "1"} rendered with no parts and the
\* default formatters gives a before b, each name after the newline and three
\* tabs of the default name formatter (in cyan unless NoColor), one space
\* between the entries and nothing before the first.
C12_FieldBlockAThenB ==
  \A i \in 1..Len(done) :
    RendersABWithoutParts(done[i]) =>
      CallOps(done[i].id)[1].data =
        colorize(<< NL, TAB, TAB, TAB, "a", "=" >>, colorCyan, w.NoColor) \o << "2", " " >>
          \o colorize(<< NL, TAB, TAB, TAB, "b", "=" >>, colorCyan, w.NoColor) \o << "1" >>
          \o done[i].hookOut \o << NL >>

\* C12's case: the record {a: "2", b: "1"} was rendered with no parts.
C12_Witness ==
  \E i \in 1..Len(done) : RendersABWithoutParts(done[i]) /\ w.NoColor

\* The line Write flushes for the record evt when the parts are those of order
\* and the hook appends hookOut.
LineOf(evt, order, hookOut) ==
  writeFields(w, evt, writeParts(w, <<>>, evt, order, 1).s) \o hookOut \o << NL >>

\* Call c rendered, with the default mode formatter and a nil error, a record
\* whose mode is null.
RendersNullMode(c) ==
  /\ IsObject(c.p)
  /\ ModeFieldName \in DOMAIN RecordOf(c.p)
  /\ RecordOf(c.p)[ModeFieldName] = VNil
  /\ w.FormatMode = "nil"
  /\ Succeeded(c)

\* C13: with the default mode formatter, the line of a record whose mode is
\* null is the line of the same record without the mode key, which is also the
\* line rendered without the mode slot (no text, no separator); mode is not
\* among the fields; and any call that rendered the same record without the
\* mode key (the hook appending the same) flushed the same bytes.
C13_NullModeAsAbsent ==
  \A i \in 1..Len(done) :
    RendersNullMode(done[i]) =>
      LET rest == Without(RecordOf(done[i].p), {ModeFieldName})
          line == CallOps(done[i].id)[1].data
      IN  /\ line = LineOf(rest, partsOrder, done[i].hookOut)
          /\ line = LineOf(rest, SelectSeq(partsOrder, LAMBDA p : p # ModeFieldName),
                           done[i].hookOut)
          /\ ~InSeq(done[i].fields, ModeFieldName)
          /\ \A j \in 1..Len(done) :
               (/\ Succeeded(done[j])
                /\ IsObject(done[j].p)
                /\ RecordOf(done[j].p) = rest
                /\ done[j].hookOut = done[i].hookOut) =>
                 CallOps(done[j].id)[1].data = line

\* C13's case: the mode slot is rendered, and a record with a null mode and
\* the same record without the mode key were both flushed.
C13_Witness ==
  /\ InSeq(partsOrder, ModeFieldName) /\ ~InSeq(w.PartsExclude, ModeFieldName)
  /\ \E i, j \in 1..Len(done) :
       /\ RendersNullMode(done[i])
       /\ Succeeded(done[j])
       /\ IsObject(done[j].p)
       /\ RecordOf(done[j].p) = Without(RecordOf(done[i].p), {ModeFieldName})

\* The five recognized slots.
RecognizedSlots ==
  { TimestampFieldName, LevelFieldName, ContextFieldName, ModeFieldName, MessageFieldName }

\* The override configured for slot p; an unrecognized name has that of the
\* field values.
SlotOverride(p) ==
  CASE p = TimestampFieldName -> w.FormatTimestamp
    [] p = LevelFieldName -> w.FormatLevel
    [] p = ContextFieldName -> w.FormatContext
    [] p = ModeFieldName -> w.FormatMode
    [] p = MessageFieldName -> w.FormatMessage
    [] OTHER -> w.FormatFieldValue

\* The text slot p is to show for the record evt: by the override if set, else
\* by the slot's default, else (an unrecognized name) the raw value as the
\* default field-value formatter prints it; nil for an absent key.
ExpectedPart(evt, p) ==
  LET v == IF p \in DOMAIN evt THEN evt[p] ELSE VNil
  IN  IF SlotOverride(p) # "nil" THEN CustomFormatter(SlotOverride(p), v)
      ELSE IF p = TimestampFieldName THEN consoleDefaultFormatTimestamp(w.NoColor, v)
      ELSE IF p = LevelFieldName THEN consoleDefaultFormatLevel(w.NoColor, v).s
      ELSE IF p = ContextFieldName THEN consoleDefaultFormatContext(v)
      ELSE IF p = ModeFieldName THEN consoleDefaultFormatMode(v)
      ELSE IF p = MessageFieldName THEN consoleDefaultFormatMessage(v)
      ELSE SprintfS(v)

\* The part block Write is to build for evt: the texts of the slots of the
\* order that are not excluded and not empty, one space between them.
ExpectedPartBlock(evt) ==
  JoinSeqs(SelectSeq([i \in 1..Len(partsOrder) |->
                        IF InSeq(w.PartsExclude, partsOrder[i]) THEN <<>>
                        ELSE ExpectedPart(evt, partsOrder[i])],
                     LAMBDA x : x # <<>>),
           << " " >>)

\* C14: once the loop over the parts order is through, the buffer holds the
\* part block: each slot of the order in turn, nothing for an excluded one, the
\* others by the override if set, else by the slot's default, else (a name
\* outside the five slots) by the field-value formatter on the record's raw
\* value, nil for an absent key.
C14_PartBlock ==
  \A t \in Threads :
    pc[t] = "fields" => bufs[call[t].buf] = ExpectedPartBlock(call[t].evt)

\* C14's case: the loop went through an order with an excluded slot, a slot
\* with an override, a slot by its default and an unrecognized name the record
\* holds.
C14_Witness ==
  \E t \in Threads :
    /\ pc[t] = "fields"
    /\ \E i \in 1..Len(partsOrder) : InSeq(w.PartsExclude, partsOrder[i])
    /\ \E i \in 1..Len(partsOrder) :
         /\ partsOrder[i] \in RecognizedSlots
         /\ ~InSeq(w.PartsExclude, partsOrder[i])
         /\ SlotOverride(partsOrder[i]) # "nil"
    /\ \E i \in 1..Len(partsOrder) :
         /\ partsOrder[i] \in RecognizedSlots
         /\ ~InSeq(w.PartsExclude, partsOrder[i])
         /\ SlotOverride(partsOrder[i]) = "nil"
         /\ ExpectedPart(call[t].evt, partsOrder[i]) # <<>>
    /\ \E i \in 1..Len(partsOrder) :
         /\ partsOrder[i] \notin RecognizedSlots
         /\ partsOrder[i] \in DOMAIN call[t].evt

\* s cut or padded with spaces to three bytes.
Fit3(s) == IF Len(s) >= 3 THEN SubSeq(s, 1, 3) ELSE PadRight(s, 3)

\* The level text as claimed: the abbreviation of a canonical token in its
\* color, error, fatal and panic in bold; any other string in upper case, three
\* wide, in bold; "???" in bold for nil.
ClaimedLevel(v) ==
  IF v.t = "nil" THEN colorize(<< "?", "?", "?" >>, colorBold, w.NoColor)
  ELSE CASE v.s = LevelTraceValue -> colorize(<< "T", "R", "C" >>, colorMagenta, w.NoColor)
         [] v.s = LevelDebugValue -> colorize(<< "D", "B", "G" >>, colorYellow, w.NoColor)
         [] v.s = LevelInfoValue -> colorize(<< "I", "N", "F" >>, colorGreen, w.NoColor)
         [] v.s = LevelWarnValue -> colorize(<< "W", "R", "N" >>, colorRed, w.NoColor)
         [] v.s = LevelErrorValue ->
              colorize(colorize(<< "E", "R", "R" >>, colorRed, w.NoColor), colorBold, w.NoColor)
         [] v.s = LevelFatalValue ->
              colorize(colorize(<< "F", "T", "L" >>, colorRed, w.NoColor), colorBold, w.NoColor)
         [] v.s = LevelPanicValue ->
              colorize(colorize(<< "P", "N", "C" >>, colorRed, w.NoColor), colorBold, w.NoColor)
         [] OTHER -> colorize(Fit3(ToUpper(v.s)), colorBold, w.NoColor)

\* C15: with the default level formatter, the level part of the part block is
\* the claimed level text, for every level that is a string or null.
C15_LevelThreeWide ==
  \A t \in Threads :
    LET evt == call[t].evt
        v == Lookup(evt, LevelFieldName)
    IN  (pc[t] = "fields" /\ w.FormatLevel = "nil" /\ v.t \in {"str", "nil"}) =>
          bufs[call[t].buf] =
            JoinSeqs(SelectSeq([i \in 1..Len(partsOrder) |->
                                  IF InSeq(w.PartsExclude, partsOrder[i]) THEN <<>>
                                  ELSE IF partsOrder[i] = LevelFieldName THEN ClaimedLevel(v)
                                  ELSE ExpectedPart(evt, partsOrder[i])],
                               LAMBDA x : x # <<>>),
                     << " " >>)

=============================================================================
